---- MODULE Spec2Model ----
(***************************************************************************)
(* Model of the three descriptor-table viewers of interrupt-modules:       *)
(*   src/ioapic/ioapic.c  /proc/ioapic0, /proc/ioapic1                      *)
(*   src/mp/mp.c          /proc/mp                                          *)
(*   src/idt/idt.c        /proc/idt                                         *)
(* Each kernel module is a state machine over its file-scope globals; the  *)
(* host (procfs + seq_file) calls open, show (once per pass of seq_read)   *)
(* and release.  32-bit words are little-endian 4-tuples of bytes so that  *)
(* the full register width (0xFFFFFFFF included) is representable.         *)
(***************************************************************************)
EXTENDS Integers, Sequences, FiniteSets, TLC

VARIABLES
    \* ---- src/ioapic/ioapic.c ----
    hw,             \* physical page -> device register contents (environment)
    ioapic0_base,   \* module parameter, in units of PAGE_SIZE
    ioapic1_base,   \* module parameter, 0 = not used
    ioapic_addr,    \* global: virtual address of the mapped window, 0 = NULL
    id,             \* global
    version,        \* global
    max_entries,    \* global
    vmap,           \* virtual address -> live ioremap window or NoMap
    loaded,         \* "unloaded" | "loaded" | "failed"
    proc1,          \* /proc/ioapic1 was created by ioapic_init
    files,          \* struct file objects created by ioapicN_open
    reports,        \* per file: one record per run of ioapic_show
    setup_by,       \* which open last ran ioapic_setup (0 = ioapic_init)
    \* ---- src/mp/mp.c ----
    mem,            \* physical memory: address -> byte (environment)
    base_mpct_bytes,\* global
    mpfp,           \* global: virtual address, 0 = NULL
    mpct,           \* global: virtual address, 0 = NULL
    mp_loaded,      \* "unloaded" | "loaded" | "failed"
    mp_log,         \* what the last mp_setup did: exit address, error, reads
    mp_setup_runs,  \* how many times mp_setup has been called
    mp_files,       \* struct file objects created by mp_open
    mp_reports,     \* per file: one record per run of mp_show
    \* ---- src/idt/idt.c ----
    idtr,           \* the CPU's IDT register (environment)
    wide,           \* CONFIG_X86_64 of the build
    dtr,            \* global
    num_idt_entries,\* global
    idt,            \* global
    idt_loaded,     \* "unloaded" | "loaded"
    idt_files,      \* struct file objects created by idt_open
    idt_reports     \* per file: one record per run of idt_show

ioapicVars == <<hw, ioapic0_base, ioapic1_base, ioapic_addr, id, version,
                max_entries, vmap, loaded, proc1, files, reports, setup_by>>

mpVars == <<mem, base_mpct_bytes, mpfp, mpct, mp_loaded, mp_log,
            mp_setup_runs, mp_files, mp_reports>>

idtVars == <<idtr, wide, dtr, num_idt_entries, idt, idt_loaded, idt_files,
             idt_reports>>

vars == <<ioapicVars, mpVars, idtVars>>

\* The state of a module that is not part of the specification at hand.
NoLog == [exit |-> 0, err |-> "none", stage2 |-> FALSE]

IdleIoapic ==
    /\ hw = <<>> /\ ioapic0_base = 0 /\ ioapic1_base = 0 /\ ioapic_addr = 0
    /\ id = 0 /\ version = 0 /\ max_entries = 0 /\ vmap = <<>>
    /\ loaded = "unloaded" /\ proc1 = FALSE /\ files = <<>> /\ reports = <<>>
    /\ setup_by = 0

IdleMp ==
    /\ mem = <<>> /\ base_mpct_bytes = 0 /\ mpfp = 0 /\ mpct = 0
    /\ mp_loaded = "unloaded" /\ mp_log = NoLog /\ mp_setup_runs = 0
    /\ mp_files = <<>> /\ mp_reports = <<>>

IdleIdt ==
    /\ idtr = [size |-> 0, address |-> 0] /\ wide = FALSE
    /\ dtr = [size |-> 0, address |-> 0] /\ num_idt_entries = 0 /\ idt = 0
    /\ idt_loaded = "unloaded" /\ idt_files = <<>> /\ idt_reports = <<>>

----------------------------------------------------------------------------
\* Bounds of the model.
MaxOpens == 2       \* opens of /proc/ioapicN per behaviour
MaxShows == 2       \* runs of ioapic_show per open file
MaxAddrs == 4       \* virtual addresses ioremap can hand out
MaxMpOpens == 1     \* opens of /proc/mp per behaviour
MaxMpShows == 1     \* runs of mp_show per open file
MaxMarkers == 2     \* floating pointer structures in one memory image
MaxMpctBytes == 70  \* largest base table length field
MaxMpEntries == 2   \* entries laid out after the header
MaxIdtOpens == 1    \* opens of /proc/idt per behaviour
MaxIdtShows == 2    \* runs of idt_show per open file
MaxIdtLimit == 64   \* IDT register limits 0..MaxIdtLimit are all taken

----------------------------------------------------------------------------
\* Bytes and 32-bit words.

Byte == 0..255

RECURSIVE BitAnd(_, _)
BitAnd(a, b) ==
    IF a = 0 \/ b = 0 THEN 0
    ELSE (a % 2) * (b % 2) + 2 * BitAnd(a \div 2, b \div 2)

\* uint32_t as <<b0, b1, b2, b3>>, least significant byte first.
W32(b3, b2, b1, b0) == <<b0, b1, b2, b3>>
ZeroW == W32(0, 0, 0, 0)
OnesW == W32(255, 255, 255, 255)
AndW(x, y) == [i \in 1..4 |-> BitAnd(x[i], y[i])]
NotW(x)    == [i \in 1..4 |-> 255 - x[i]]
\* x >> n for n a multiple of 8
ShrW(x, n) == [i \in 1..4 |-> IF i + (n \div 8) <= 4 THEN x[i + (n \div 8)] ELSE 0]
\* value of a word that fits 31 bits
ValW(x)    == x[1] + 256 * x[2] + 65536 * x[3] + 16777216 * x[4]

----------------------------------------------------------------------------
\* src/ioapic/ioapic.c

ENODEV == 19

IOAPIC_REG_ID  == 0
IOAPIC_REG_VER == 1

IOAPIC_REG_ID_SHIFT_ID           == 24
IOAPIC_REG_ID_MASK_ID            == W32(15, 0, 0, 0)     \* 0x0F000000
IOAPIC_REG_VER_SHIFT_VER         == 0
IOAPIC_REG_VER_MASK_VER          == W32(0, 0, 0, 255)    \* 0x000000FF
IOAPIC_REG_VER_SHIFT_MAX_ENTRIES == 16
IOAPIC_REG_VER_MASK_MAX_ENTRIES  == W32(0, 255, 0, 0)    \* 0x00FF0000

\* Physical pages (address / PAGE_SIZE) the module parameters can name.
IOAPIC0_BASE_DEFAULT == 1041408     \* 0xFEC00000 / 4096
IOAPIC1_BASE_SECOND  == IOAPIC0_BASE_DEFAULT + 1     \* 0xFEC01000
NOT_AN_IOAPIC        == IOAPIC0_BASE_DEFAULT + 256   \* 0xFED00000
Pages == {IOAPIC0_BASE_DEFAULT, IOAPIC1_BASE_SECOND, NOT_AN_IOAPIC}

\* A device behind a page: an I/O APIC with the given ID and VER registers,
\* or nothing (every read returns all ones).
Device(present, reg_id, reg_ver) ==
    [present |-> present, reg_id |-> reg_id, reg_ver |-> reg_ver]
NoDevice == Device(FALSE, OnesW, OnesW)

\* Content of logical register reg (already 8 bits wide) of a device.
DeviceReg(dev, reg) ==
    IF ~dev.present THEN OnesW
    ELSE IF reg = IOAPIC_REG_ID THEN dev.reg_id
    ELSE IF reg = IOAPIC_REG_VER THEN dev.reg_ver
    ELSE IF reg >= 16 /\ reg % 2 = 0 THEN W32(0, 1, 0, 0)  \* masked entry
    ELSE ZeroW

NoMap == [base |-> 0, owner |-> 0, live |-> FALSE]
Window(base, owner) == [base |-> base, owner |-> owner, live |-> TRUE]
Addrs == 1..MaxAddrs
FreeAddrs == {a \in Addrs : ~vmap[a].live}
\* ioremap_nocache: the address handed out is the lowest one not in use
\* (taken: addresses handed out earlier in the same handler).
ioremap_nocache(taken) ==
    CHOOSE a \in FreeAddrs \ taken : \A b \in FreeAddrs \ taken : a <= b

\* ioapic_read: the 8-bit index register selects the logical register; the
\* reg argument is converted to uint8_t at the call.
IndexReg(reg) == reg % 256
ioapic_read(hwv, win, reg) ==
    IF win.live THEN DeviceReg(hwv[win.base], IndexReg(reg))
    ELSE OnesW      \* no window behind the address: junk

\* ioapic_setup(ioapic_base) after ioremap_nocache returned address a:
\* the return value and the globals it leaves behind.
ioapic_setup(hwv, ioapic_base, a, owner, old) ==
    LET win     == Window(ioapic_base, owner)
        reg_id  == ioapic_read(hwv, win, IOAPIC_REG_ID)
        reg_ver == ioapic_read(hwv, win, IOAPIC_REG_VER)
        keep    == [ioapic_addr |-> a, win |-> win, id |-> old.id,
                    version |-> old.version, max_entries |-> old.max_entries]
    IN  IF AndW(reg_id, NotW(IOAPIC_REG_ID_MASK_ID)) # ZeroW
        THEN [ret |-> -ENODEV] @@ keep
        ELSE IF AndW(AndW(reg_ver, NotW(IOAPIC_REG_VER_MASK_VER)),
                     NotW(IOAPIC_REG_VER_MASK_MAX_ENTRIES)) # ZeroW
        THEN [ret |-> -ENODEV] @@ keep
        ELSE [ret |-> 0, ioapic_addr |-> a, win |-> win,
              id |-> ValW(ShrW(AndW(reg_id, IOAPIC_REG_ID_MASK_ID),
                               IOAPIC_REG_ID_SHIFT_ID)),
              version |-> ValW(ShrW(AndW(reg_ver, IOAPIC_REG_VER_MASK_VER),
                                    IOAPIC_REG_VER_SHIFT_VER)),
              max_entries |-> ValW(ShrW(AndW(reg_ver, IOAPIC_REG_VER_MASK_MAX_ENTRIES),
                                        IOAPIC_REG_VER_SHIFT_MAX_ENTRIES))]

Globals == [id |-> id, version |-> version, max_entries |-> max_entries]

\* ioapic_show's loop "for (pin = 0; pin <= max_entries; pin++)": the loop
\* condition, the first pin at which it fails, and one entry per pin before
\* that, two ioapic_read calls each.  index_lo/index_hi are the values that
\* reach the index register; word_lo/word_hi what the data register returns.
\* (a loop that stops one pin early)
ShowLoopCondExclusive(pin, max) == pin < max

ShowLoopCond(pin, max) == pin <= max

ShowLoopExit(max) ==
    CHOOSE n \in 0..(max + 1) :
        /\ ~ShowLoopCond(n, max)
        /\ \A k \in 0..(n - 1) : ShowLoopCond(k, max)

ShowLoop(hwv, win, max) ==
    [i \in 1..ShowLoopExit(max) |->
        LET pin == i - 1
        IN  [pin      |-> pin,
             index_lo |-> IndexReg(16 + 2 * pin),
             index_hi |-> IndexReg(17 + 2 * pin),
             word_lo  |-> ioapic_read(hwv, win, 16 + 2 * pin),
             word_hi  |-> ioapic_read(hwv, win, 17 + 2 * pin)]]

File(ctrl, base, ret) ==
    [ctrl |-> ctrl, base |-> base, ret |-> ret, shows |-> 0, closed |-> FALSE]

Report(f, live, entries, unmap) ==
    [file |-> f, live |-> live, completed |-> (unmap # "none"),
     id |-> id, version |-> version, count |-> max_entries + 1,
     entries |-> entries,
     window |-> IF live THEN vmap[ioapic_addr].base ELSE 0,
     setup_by |-> setup_by, unmap |-> unmap]

\* Two controllers (ID 0, version 0x11, 3 pins; ID 1, version 0x20,
\* 2 pins) and a page that holds no I/O APIC: nothing at all, or a device
\* whose ID register passes and whose VER register has reserved bits set.
InitIoapic ==
    /\ \E other \in {NoDevice, Device(TRUE, W32(3, 0, 0, 0), W32(0, 23, 1, 17))} :
         hw = [p \in Pages |->
                 IF p = IOAPIC0_BASE_DEFAULT
                   THEN Device(TRUE, W32(0, 0, 0, 0), W32(0, 2, 0, 17))
                 ELSE IF p = IOAPIC1_BASE_SECOND
                   THEN Device(TRUE, W32(1, 0, 0, 0), W32(0, 1, 0, 32))
                 ELSE other]
    /\ ioapic0_base \in Pages
    /\ ioapic1_base \in {0} \cup Pages
    /\ ioapic_addr = 0
    /\ id = 0
    /\ version = 0
    /\ max_entries = 0
    /\ vmap = [a \in Addrs |-> NoMap]
    /\ loaded = "unloaded"
    /\ proc1 = FALSE
    /\ files = <<>>
    /\ reports = <<>>
    /\ setup_by = 0
    /\ IdleMp
    /\ IdleIdt

\* ioapic_init: probe the controller(s), then create the proc files.  Neither
\* the success path nor the error returns call iounmap.
ioapic_init ==
    /\ loaded = "unloaded"
    /\ LET a0 == ioremap_nocache({})
           s0 == ioapic_setup(hw, ioapic0_base, a0, 0, Globals)
       IN    IF s0.ret < 0
             THEN /\ loaded' = "failed"
                  /\ ioapic_addr' = a0
                  /\ vmap' = [vmap EXCEPT ![a0] = s0.win]
                  /\ UNCHANGED <<id, version, max_entries, proc1>>
             ELSE IF ioapic1_base # 0
             THEN   LET a1 == ioremap_nocache({a0})
                        s1 == ioapic_setup(hw, ioapic1_base, a1, 0, s0)
                    IN  /\ loaded' = IF s1.ret < 0 THEN "failed" ELSE "loaded"
                        /\ proc1' = (s1.ret >= 0)
                        /\ ioapic_addr' = a1
                        /\ vmap' = [vmap EXCEPT ![a0] = s0.win, ![a1] = s1.win]
                        /\ id' = s1.id
                        /\ version' = s1.version
                        /\ max_entries' = s1.max_entries
             ELSE /\ loaded' = "loaded"
                  /\ proc1' = FALSE
                  /\ ioapic_addr' = a0
                  /\ vmap' = [vmap EXCEPT ![a0] = s0.win]
                  /\ id' = s0.id
                  /\ version' = s0.version
                  /\ max_entries' = s0.max_entries
    /\ UNCHANGED <<hw, ioapic0_base, ioapic1_base, files, reports, setup_by>>
    /\ UNCHANGED <<mpVars, idtVars>>

\* module_param(..., S_IRUSR | S_IWUSR | ...): root may rewrite a base
\* address through sysfs while the module is loaded.
param_set(c, b) ==
    /\ loaded = "loaded"
    /\ IF c = 0
       THEN ioapic0_base # b /\ ioapic0_base' = b /\ UNCHANGED ioapic1_base
       ELSE proc1 /\ ioapic1_base # b /\ ioapic1_base' = b /\ UNCHANGED ioapic0_base
    /\ UNCHANGED <<hw, ioapic_addr, id, version, max_entries, vmap, loaded,
                   proc1, files, reports, setup_by>>
    /\ UNCHANGED <<mpVars, idtVars>>

\* ioapicN_open: ioapic_setup(base) with its return value dropped, then
\* single_open(file, ioapic_show, NULL), which succeeds.
ioapic_open(ctrl, base, limit) ==
    /\ loaded = "loaded"
    /\ Len(files) < limit
    /\ FreeAddrs # {}
    /\ LET a == ioremap_nocache({})
           s == ioapic_setup(hw, base, a, Len(files) + 1, Globals)
       IN    /\ ioapic_addr' = a
             /\ vmap' = [vmap EXCEPT ![a] = s.win]
             /\ id' = s.id
             /\ version' = s.version
             /\ max_entries' = s.max_entries
             /\ files' = Append(files, File(ctrl, base, s.ret))
    /\ setup_by' = Len(files) + 1
    /\ reports' = Append(reports, <<>>)
    /\ UNCHANGED <<hw, ioapic0_base, ioapic1_base, loaded, proc1>>
    /\ UNCHANGED <<mpVars, idtVars>>

ioapic0_open == ioapic_open(0, ioapic0_base, MaxOpens)

ioapic1_open == proc1 /\ ioapic_open(1, ioapic1_base, MaxOpens)

\* ioapic_show, run by seq_read for file f: summary line, the pin loop through
\* the global ioapic_addr, then iounmap(ioapic_addr).  Reading through an
\* address whose window is gone is undefined: the access faults (the show
\* never reaches iounmap) or a stale translation answers with junk and
\* iounmap is then called on an address that is not mapped.
ioapic_show(f, limit) ==
    /\ f \in 1..Len(files)
    /\ ~files[f].closed
    /\ files[f].shows < limit
    /\ files' = [files EXCEPT ![f].shows = @ + 1]
    /\ IF ioapic_addr # 0 /\ vmap[ioapic_addr].live
       THEN /\ reports' = [reports EXCEPT ![f] = Append(@,
                   Report(f, TRUE,
                          ShowLoop(hw, vmap[ioapic_addr], max_entries), "ok"))]
            /\ vmap' = [vmap EXCEPT ![ioapic_addr] = NoMap]
       ELSE /\ \E outcome \in {"fault", "stale"} :
                 reports' = [reports EXCEPT ![f] = Append(@,
                   IF outcome = "fault"
                   THEN Report(f, FALSE, <<>>, "none")
                   ELSE Report(f, FALSE,
                               ShowLoop(hw, NoMap, max_entries), "double"))]
            /\ UNCHANGED vmap
    /\ UNCHANGED <<hw, ioapic0_base, ioapic1_base, ioapic_addr, id, version,
                   max_entries, loaded, proc1, setup_by>>
    /\ UNCHANGED <<mpVars, idtVars>>

\* single_release: frees the seq_file; the module's globals are untouched.
single_release(f) ==
    /\ f \in 1..Len(files)
    /\ ~files[f].closed
    /\ files' = [files EXCEPT ![f].closed = TRUE]
    /\ UNCHANGED <<hw, ioapic0_base, ioapic1_base, ioapic_addr, id, version,
                   max_entries, vmap, loaded, proc1, reports, setup_by>>
    /\ UNCHANGED <<mpVars, idtVars>>

NextIoapic ==
    \/ ioapic_init
    \/ \E c \in {0, 1}, b \in Pages : param_set(c, b)
    \/ ioapic0_open
    \/ ioapic1_open
    \/ \E f \in 1..MaxOpens : ioapic_show(f, MaxShows)
    \/ \E f \in 1..MaxOpens : single_release(f)

SpecIoapic == InitIoapic /\ [][NextIoapic]_vars

----------------------------------------------------------------------------
\* src/mp/mp.c

MPFP_SIGNATURE == W32(95, 80, 77, 95)     \* 0x5f504d5f, "_MP_"
MPCT_SIGNATURE == W32(80, 77, 67, 80)     \* 0x504d4350, "PCMP"

MPFP_SIGNATURE_BYTES == 4
MPCT_SIGNATURE_BYTES == 4

MPCT_ENTRY_TYPE_PROCESSOR  == 0
MPCT_ENTRY_BYTES_PROCESSOR == 20
MPCT_ENTRY_BYTES_DEFAULT   == 8

MPFP_STRUCTURE_BYTES == 16
MPCT_HEADER_BYTES    == 44

SCAN_FIRST == 983040      \* 0xF0000
SCAN_LAST  == 1048575     \* 0xFFFFF
SCAN_STEP  == 16

\* phys_to_virt / virt_to_phys of the direct map (PAGE_OFFSET 0x40000000).
PAGE_OFFSET == 1073741824
phys_to_virt(pa) == pa + PAGE_OFFSET
virt_to_phys(va) == va - PAGE_OFFSET

\* *(uint8_t *)va and *(uint32_t *)va; memory nobody wrote reads as zero.
Read8(m, va) ==
    IF virt_to_phys(va) \in DOMAIN m THEN m[virt_to_phys(va)] ELSE 0
Read32(m, va) == [i \in 1..4 |-> Read8(m, va + i - 1)]
\* conversion of a uint32_t to uint16_t
U16(w) == w[1] + 256 * w[2]

\* The scan loop "for (phys_addr = 0xF0000; phys_addr <= 0xFFFFF;
\* phys_addr += 16)": the addresses it can visit, those whose first four
\* bytes are the signature, and phys_addr when the loop is left (by break at
\* the first match, or by the loop condition).
ScanCandidates ==
    {SCAN_FIRST + SCAN_STEP * k : k \in 0..((SCAN_LAST - SCAN_FIRST) \div SCAN_STEP)}

ScanMatches(m) ==
    {pa \in ScanCandidates : Read32(m, phys_to_virt(pa)) = MPFP_SIGNATURE}

\* (a scan without the break: the last match wins)
ScanExitNoBreak(m) ==
    LET hit == ScanMatches(m)
    IN  IF hit = {}
        THEN SCAN_FIRST + SCAN_STEP * (((SCAN_LAST - SCAN_FIRST) \div SCAN_STEP) + 1)
        ELSE CHOOSE pa \in hit : \A other \in hit : pa >= other

ScanExit(m) ==
    LET hit == ScanMatches(m)
    IN  IF hit = {}
        THEN SCAN_FIRST + SCAN_STEP * (((SCAN_LAST - SCAN_FIRST) \div SCAN_STEP) + 1)
        ELSE CHOOSE pa \in hit : \A other \in hit : pa <= other

\* mp_setup: return value, the globals it leaves behind (old: their values
\* before the call) and what it did.
mp_setup(m, old) ==
    LET phys_addr == ScanExit(m)
        last      == phys_addr - SCAN_STEP
    IN  IF phys_addr = 1048576
        THEN [ret |-> -ENODEV, mpfp |-> phys_to_virt(last), mpct |-> old.mpct,
              base_mpct_bytes |-> old.base_mpct_bytes,
              log |-> [exit |-> phys_addr, err |-> "not found", stage2 |-> FALSE]]
        ELSE
        LET fp    == phys_to_virt(phys_addr)
            ptr   == Read32(m, fp + MPFP_SIGNATURE_BYTES)
            ct    == phys_to_virt(ValW(ptr))
        IN  IF Read32(m, ct) # MPCT_SIGNATURE
            THEN [ret |-> -ENODEV, mpfp |-> fp, mpct |-> ct,
                  base_mpct_bytes |-> old.base_mpct_bytes,
                  log |-> [exit |-> phys_addr, err |-> "bad signature",
                           stage2 |-> TRUE]]
            ELSE [ret |-> 0, mpfp |-> fp, mpct |-> ct,
                  base_mpct_bytes |-> U16(Read32(m, ct + MPCT_SIGNATURE_BYTES)),
                  log |-> [exit |-> phys_addr, err |-> "none", stage2 |-> TRUE]]

\* The entry loop of mp_show from pos on: the discriminator byte picks the
\* stride, entry_bytes bytes are printed from mpct[pos].
RECURSIVE WalkEntries(_, _, _, _)
WalkEntries(m, ct, pos, size) ==
    IF pos < size
    THEN LET entry_bytes ==
                 IF Read8(m, ct + pos) = MPCT_ENTRY_TYPE_PROCESSOR
                 THEN MPCT_ENTRY_BYTES_PROCESSOR
                 ELSE MPCT_ENTRY_BYTES_DEFAULT
         IN  <<[pos |-> pos, entry_bytes |-> entry_bytes,
                bytes |-> [b \in 1..entry_bytes |-> Read8(m, ct + pos + b - 1)]]>>
             \o WalkEntries(m, ct, pos + entry_bytes, size)
    ELSE <<>>

MpReport ==
    [mpfp_bytes |-> [b \in 1..MPFP_STRUCTURE_BYTES |-> Read8(mem, mpfp + b - 1)],
     header     |-> [b \in 1..MPCT_HEADER_BYTES |-> Read8(mem, mpct + b - 1)],
     size       |-> base_mpct_bytes,
     entries    |-> WalkEntries(mem, mpct, MPCT_HEADER_BYTES, base_mpct_bytes),
     setup_runs |-> mp_setup_runs]

\* mp_init: mp_setup once, proc_create only when it succeeded.
mp_init ==
    /\ mp_loaded = "unloaded"
    /\ LET s == mp_setup(mem, [mpct |-> mpct, base_mpct_bytes |-> base_mpct_bytes])
       IN  /\ mp_loaded' = IF s.ret < 0 THEN "failed" ELSE "loaded"
           /\ mpfp' = s.mpfp
           /\ mpct' = s.mpct
           /\ base_mpct_bytes' = s.base_mpct_bytes
           /\ mp_log' = s.log
    /\ mp_setup_runs' = mp_setup_runs + 1
    /\ UNCHANGED <<mem, mp_files, mp_reports>>
    /\ UNCHANGED <<ioapicVars, idtVars>>

\* mp_open: single_open(file, mp_show, NULL) and nothing else.
mp_open ==
    /\ mp_loaded = "loaded"
    /\ Len(mp_files) < MaxMpOpens
    /\ mp_files' = Append(mp_files, [shows |-> 0, closed |-> FALSE,
                                     runs_before |-> mp_setup_runs])
    /\ mp_reports' = Append(mp_reports, <<>>)
    /\ UNCHANGED <<mem, base_mpct_bytes, mpfp, mpct, mp_loaded, mp_log,
                   mp_setup_runs>>
    /\ UNCHANGED <<ioapicVars, idtVars>>

\* mp_show, run by seq_read for file f.
mp_show(f) ==
    /\ f \in 1..Len(mp_files)
    /\ ~mp_files[f].closed
    /\ mp_files[f].shows < MaxMpShows
    /\ mp_files' = [mp_files EXCEPT ![f].shows = @ + 1]
    /\ mp_reports' = [mp_reports EXCEPT ![f] = Append(@, MpReport)]
    /\ UNCHANGED <<mem, base_mpct_bytes, mpfp, mpct, mp_loaded, mp_log,
                   mp_setup_runs>>
    /\ UNCHANGED <<ioapicVars, idtVars>>

mp_release(f) ==
    /\ f \in 1..Len(mp_files)
    /\ ~mp_files[f].closed
    /\ mp_files' = [mp_files EXCEPT ![f].closed = TRUE]
    /\ UNCHANGED <<mem, base_mpct_bytes, mpfp, mpct, mp_loaded, mp_log,
                   mp_setup_runs, mp_reports>>
    /\ UNCHANGED <<ioapicVars, idtVars>>

\* Firmware memory images.  A floating pointer structure is "_MP_", the
\* physical address of the configuration table, then length 1, revision 4,
\* a checksum and five feature bytes.  A configuration table is its
\* signature, the base table length (2 bytes), revision, checksum, the rest
\* of the 44-byte header, then the entries: a type byte and the body.
Place(at, bytes) == [a \in at..(at + Len(bytes) - 1) |-> bytes[a - at + 1]]

Le32(n) == <<n % 256, (n \div 256) % 256, (n \div 65536) % 256, n \div 16777216>>

FloatingPointer(sig, table) ==
    sig \o Le32(table) \o <<1, 4, 0, 0, 0, 0, 0, 0>>

RECURSIVE EntryBytes(_)
EntryBytes(types) ==
    IF types = <<>> THEN <<>>
    ELSE <<Head(types)>>
         \o [b \in 1..((IF Head(types) = 0 THEN 20 ELSE 8) - 1) |-> 238]
         \o EntryBytes(Tail(types))

ConfigTable(sig, size, types) ==
    sig \o <<size % 256, size \div 256, 4, 165>> \o [b \in 1..36 |-> 32]
    \o EntryBytes(types)

RECURSIVE PlaceAll(_, _, _)
PlaceAll(sites, sig, table) ==
    IF sites = {} THEN <<>>
    ELSE LET at == CHOOSE a \in sites : TRUE
         IN  Place(at, FloatingPointer(sig, table))
             @@ PlaceAll(sites \ {at}, sig, table)

TABLE_AT == 639 * 1024     \* 0x9FC00, the extended BIOS data area
\* Where a floating pointer structure may sit: four addresses the scan
\* visits, one inside the window off the 16-byte grid, one below the window
\* and one above it.
MarkerSites == {983040, 983056, 1009728, 1048560, 983048, 983024, 1048576}
SiteSets == {S \in SUBSET MarkerSites : Cardinality(S) <= MaxMarkers}
EntryTypes == {0, 4}
TypeSeqs == UNION {[1..n -> EntryTypes] : n \in 0..MaxMpEntries}

InitMp ==
    /\ \/ \E S \in SiteSets, sig \in {MPCT_SIGNATURE, W32(88, 77, 67, 80)} :
            mem = PlaceAll(S, W32(95, 80, 77, 95), TABLE_AT)
                  @@ Place(TABLE_AT, ConfigTable(sig, 52, <<4>>))
       \/ \E size \in 0..MaxMpctBytes, types \in TypeSeqs :
            mem = Place(1009728, FloatingPointer(W32(95, 80, 77, 95), TABLE_AT))
                  @@ Place(TABLE_AT, ConfigTable(MPCT_SIGNATURE, size, types))
    /\ base_mpct_bytes = 0
    /\ mpfp = 0
    /\ mpct = 0
    /\ mp_loaded = "unloaded"
    /\ mp_log = NoLog
    /\ mp_setup_runs = 0
    /\ mp_files = <<>>
    /\ mp_reports = <<>>
    /\ IdleIoapic
    /\ IdleIdt

NextMp ==
    \/ mp_init
    \/ mp_open
    \/ \E f \in 1..MaxMpOpens : mp_show(f)
    \/ \E f \in 1..MaxMpOpens : mp_release(f)

SpecMp == InitMp /\ [][NextMp]_vars

----------------------------------------------------------------------------
\* src/idt/idt.c

IDT_ENTRY_BYTES_WIDE   == 16      \* #ifdef CONFIG_X86_64
IDT_ENTRY_BYTES_NARROW == 8       \* #else
IDT_ENTRY_BYTES == IF wide THEN IDT_ENTRY_BYTES_WIDE ELSE IDT_ENTRY_BYTES_NARROW

\* idt_setup: store_idt(&dtr), then the entry count; dtr.size is an unsigned
\* short, promoted to int before the addition.  Returns the new globals and
\* the summary line.
\* (an entry count taken from the limit itself, without the + 1)
idt_setup_limit_as_size(reg) ==
    LET n == reg.size \div IDT_ENTRY_BYTES
    IN  [dtr |-> reg, num_idt_entries |-> n, idt |-> reg.address,
         summary |-> [bytes |-> reg.size + 1, entries |-> n,
                      address |-> reg.address]]

idt_setup(reg) ==
    LET n == (reg.size + 1) \div IDT_ENTRY_BYTES
    IN  [dtr |-> reg, num_idt_entries |-> n, idt |-> reg.address,
         summary |-> [bytes |-> reg.size + 1, entries |-> n,
                      address |-> reg.address]]

\* The loop "for (entry = 0; entry < num_idt_entries; entry++)" of idt_show:
\* one line per entry, read from idt[entry].
IdtLoopCond(entry, n) == entry < n

IdtLoopExit(n) ==
    CHOOSE x \in 0..n :
        /\ ~IdtLoopCond(x, n)
        /\ \A k \in 0..(x - 1) : IdtLoopCond(k, n)

IdtLines(table, n) ==
    [i \in 1..IdtLoopExit(n) |->
        [entry |-> i - 1, at |-> table + (i - 1) * IDT_ENTRY_BYTES]]

\* idt_init: proc_create and nothing else.
idt_init ==
    /\ idt_loaded = "unloaded"
    /\ idt_loaded' = "loaded"
    /\ UNCHANGED <<idtr, wide, dtr, num_idt_entries, idt, idt_files, idt_reports>>
    /\ UNCHANGED <<ioapicVars, mpVars>>

\* idt_open: single_open(file, idt_show, NULL).
idt_open ==
    /\ idt_loaded = "loaded"
    /\ Len(idt_files) < MaxIdtOpens
    /\ idt_files' = Append(idt_files, [shows |-> 0, closed |-> FALSE])
    /\ idt_reports' = Append(idt_reports, <<>>)
    /\ UNCHANGED <<idtr, wide, dtr, num_idt_entries, idt, idt_loaded>>
    /\ UNCHANGED <<ioapicVars, mpVars>>

\* idt_show, run by seq_read for file f: idt_setup, then the entry loop.
idt_show(f) ==
    /\ f \in 1..Len(idt_files)
    /\ ~idt_files[f].closed
    /\ idt_files[f].shows < MaxIdtShows
    /\ LET s == idt_setup(idtr)
       IN  /\ dtr' = s.dtr
           /\ num_idt_entries' = s.num_idt_entries
           /\ idt' = s.idt
           /\ idt_reports' = [idt_reports EXCEPT ![f] = Append(@,
                   [summary |-> s.summary,
                    lines   |-> IdtLines(s.idt, s.num_idt_entries)])]
    /\ idt_files' = [idt_files EXCEPT ![f].shows = @ + 1]
    /\ UNCHANGED <<idtr, wide, idt_loaded>>
    /\ UNCHANGED <<ioapicVars, mpVars>>

idt_release(f) ==
    /\ f \in 1..Len(idt_files)
    /\ ~idt_files[f].closed
    /\ idt_files' = [idt_files EXCEPT ![f].closed = TRUE]
    /\ UNCHANGED <<idtr, wide, dtr, num_idt_entries, idt, idt_loaded, idt_reports>>
    /\ UNCHANGED <<ioapicVars, mpVars>>

\* The limit field of the IDT register is 16 bits wide: the model takes
\* every value up to MaxIdtLimit, the limit of a full 256-entry table in
\* either layout, and the largest one.
IdtLimits == (0..MaxIdtLimit) \cup {2047, 4095, 65535}

InitIdt ==
    /\ \E size \in IdtLimits : idtr = [size |-> size, address |-> 4096]
    /\ wide \in BOOLEAN
    /\ dtr = [size |-> 0, address |-> 0]
    /\ num_idt_entries = 0
    /\ idt = 0
    /\ idt_loaded = "unloaded"
    /\ idt_files = <<>>
    /\ idt_reports = <<>>
    /\ IdleIoapic
    /\ IdleMp

NextIdt ==
    \/ idt_init
    \/ idt_open
    \/ \E f \in 1..MaxIdtOpens : idt_show(f)
    \/ \E f \in 1..MaxIdtOpens : idt_release(f)

SpecIdt == InitIdt /\ [][NextIdt]_vars

----------------------------------------------------------------------------
\* Redirection-table walk for every max_entries the version register can
\* report: one controller at the default base, VER = 0x00mm0011.

MaxRedirOpens == 1      \* opens of /proc/ioapic0 per behaviour
MaxRedirShows == 1      \* runs of ioapic_show per open file

InitRedir ==
    /\ \E m \in Byte :
         hw = [p \in Pages |->
                 IF p = IOAPIC0_BASE_DEFAULT
                   THEN Device(TRUE, W32(2, 0, 0, 0), W32(0, m, 0, 17))
                 ELSE NoDevice]
    /\ ioapic0_base = IOAPIC0_BASE_DEFAULT
    /\ ioapic1_base = 0
    /\ ioapic_addr = 0
    /\ id = 0
    /\ version = 0
    /\ max_entries = 0
    /\ vmap = [a \in Addrs |-> NoMap]
    /\ loaded = "unloaded"
    /\ proc1 = FALSE
    /\ files = <<>>
    /\ reports = <<>>
    /\ setup_by = 0
    /\ IdleMp
    /\ IdleIdt

NextRedir ==
    \/ ioapic_init
    \/ ioapic_open(0, ioapic0_base, MaxRedirOpens)
    \/ \E f \in 1..MaxRedirOpens : ioapic_show(f, MaxRedirShows)

SpecRedir == InitRedir /\ [][NextRedir]_vars

----------------------------------------------------------------------------
\* Claims about src/ioapic/ioapic.c

AllReports == {<<f, k>> : f \in 1..Len(files), k \in 1..MaxShows + MaxRedirShows}
ReportIds  == {x \in AllReports : x[2] <= Len(reports[x[1]])}
Rep(x)     == reports[x[1]][x[2]]

\* C1: the window mapped by an open's ioapic_setup is released by the end of
\* that open: once the file is released, no window mapped by its open is
\* still mapped.
C1_WindowReleasedByEndOfOpen ==
    \A f \in 1..Len(files) :
        files[f].closed => ~\E a \in Addrs : vmap[a].live /\ vmap[a].owner = f

\* C2: when ioapic_setup fails for an open, ioapic_show is never run for that
\* open and nothing is rendered for it.
C2_FailedSetupRendersNothing ==
    \A f \in 1..Len(files) : files[f].ret < 0 => reports[f] = <<>>

\* C4: a report for one controller never uses values that the other
\* controller's ioapic_setup left in the globals: the open that last ran
\* ioapic_setup before the show is an open of the same controller, and the
\* window read is that controller's.
C4_PipelinesIndependent ==
    \A x \in ReportIds :
        /\ files[Rep(x).setup_by].ctrl = files[x[1]].ctrl
        /\ Rep(x).live => Rep(x).window = files[x[1]].base

\* C10: every ioapic_read of ioapic_show goes through a window that is mapped
\* at that moment, and no window is released twice.
C10_NoUseAfterUnmap ==
    \A x \in ReportIds : Rep(x).live /\ Rep(x).unmap = "ok"

\* C6: a run of ioapic_show that completes produces exactly max_entries + 1
\* entries, max_entries being bits 16..23 of the controller's version
\* register, with pins 0, 1, ..., max_entries in this order (the i-th entry
\* is pin i - 1, so no pin is skipped and none is read twice); the count of
\* the summary line is that number.
C6_ExactlyMaxEntriesPlusOne ==
    \A x \in ReportIds :
        LET r   == Rep(x)
            max == hw[files[x[1]].base].reg_ver[3]
        IN  (r.completed /\ files[x[1]].ret = 0) =>
              /\ Len(r.entries) = max + 1
              /\ r.count = max + 1
              /\ \A i \in 1..Len(r.entries) : r.entries[i].pin = i - 1

C6_Witness ==
    \E x \in ReportIds :
        /\ Rep(x).completed /\ Rep(x).live
        /\ Len(Rep(x).entries) = 256
        /\ Rep(x).entries[256].pin = 255

\* C9: for every pin the two values written to the index register are
\* 0x10 + 2*pin and 0x11 + 2*pin, with no wrap-around modulo 256.
C9_IndexRegisterNoWrap ==
    \A x \in ReportIds :
        \A i \in 1..Len(Rep(x).entries) :
            LET e == Rep(x).entries[i]
            IN  e.index_lo = 16 + 2 * e.pin /\ e.index_hi = 17 + 2 * e.pin

----------------------------------------------------------------------------
\* Claims about src/mp/mp.c

MpReportIds ==
    {x \in {<<f, k>> : f \in 1..Len(mp_files), k \in 1..MaxMpShows + 1} :
        x[2] <= Len(mp_reports[x[1]])}
MpRep(x) == mp_reports[x[1]][x[2]]

\* C3: every open re-runs the Locate step before the walk: when mp_show
\* renders a report, mp_setup has run since that open began, so the table
\* address and size it uses are not carried over from module load or from an
\* earlier open.
C3_LocateRunsInEveryOpen ==
    \A x \in MpReportIds :
        MpRep(x).setup_runs > mp_files[x[1]].runs_before

\* C5: the walk of mp_show starts at offset 44 and reads no byte at an
\* offset >= base_mpct_bytes as part of an entry.
C5_NoEntryByteBeyondBaseTable ==
    \A x \in MpReportIds :
        LET r == MpRep(x)
        IN  /\ r.entries # <<>> => r.entries[1].pos = 44
            /\ \A i \in 1..Len(r.entries) :
                  r.entries[i].pos + r.entries[i].entry_bytes <= r.size

\* The addresses of the scan window on the 16-byte grid where memory holds
\* the bytes '_', 'M', 'P', '_'.
MarkersInWindow ==
    {a \in DOMAIN mem :
        /\ a >= 983040 /\ a <= 1048575 /\ a % 16 = 0
        /\ \A i \in 0..3 : (a + i) \in DOMAIN mem
        /\ <<mem[a], mem[a + 1], mem[a + 2], mem[a + 3]>> = <<95, 77, 80, 95>>}

\* C7: once mp_setup has run, if the window holds a marker on the 16-byte
\* grid the located address is the lowest such address; if it holds none,
\* mp_setup failed with the not-found error and never read a second-stage
\* table.
C7_ScanFindsLowestMarker ==
    mp_loaded # "unloaded" =>
        IF MarkersInWindow # {}
        THEN /\ \A a \in MarkersInWindow : mp_log.exit <= a
             /\ mp_log.exit \in MarkersInWindow
             /\ mpfp = mp_log.exit + PAGE_OFFSET
             /\ mp_log.err # "not found"
        ELSE /\ mp_loaded = "failed"
             /\ mp_log.err = "not found"
             /\ ~mp_log.stage2
             /\ mpct = 0

C7_Witness ==
    /\ mp_loaded = "loaded"
    /\ MarkersInWindow = {983056, 1009728}
    /\ mp_log.exit = 983056

----------------------------------------------------------------------------
\* Claims about src/idt/idt.c

IdtReportIds ==
    {x \in {<<f, k>> : f \in 1..Len(idt_files), k \in 1..MaxIdtShows + 1} :
        x[2] <= Len(idt_reports[x[1]])}
IdtRep(x) == idt_reports[x[1]][x[2]]

\* C8: the number of entries idt_show walks and renders is
\* (size_minus_one + 1) / stride, integer division, stride 16 in the wide
\* layout and 8 in the narrow one; the indices are 0..entry_count-1 in
\* ascending order and the summary line prints that same count.
C8_EntryCount ==
    \A x \in IdtReportIds :
        LET r      == IdtRep(x)
            stride == IF wide THEN 16 ELSE 8
            count  == (idtr.size + 1) \div stride
        IN  /\ Len(r.lines) = count
            /\ r.summary.entries = count
            /\ \A i \in 1..Len(r.lines) : r.lines[i].entry = i - 1

C8_Witness ==
    \E x \in IdtReportIds :
        /\ idtr.size = 65535 /\ ~wide
        /\ Len(IdtRep(x).lines) = 8192
        /\ IdtRep(x).lines[8192].entry = 8191

====
